---- MODULE Spec2Model ----
(***************************************************************************)
(* qmanager daemon: the job queue (job_queue.rs), the state file           *)
(* (state.rs) and the three threads of daemon.rs: the accept loop that     *)
(* dispatches client requests (handle_client), the queue runner            *)
(* (run_queue) and the SIGTERM handler (setup_signal_handler).             *)
(*                                                                         *)
(* Abstractions: a timestamp is its presence (Option<SystemTime> is        *)
(* TRUE/FALSE); a job's captured stdout/stderr text is left out; a pid is   *)
(* a number that is fresh per daemon run and job.                          *)
(***************************************************************************)
EXTENDS Integers, Sequences, FiniteSets, TLC

\* ------------------------------------------------------------------ bounds
\* highest job id the model hands out (submit is disabled beyond it)
MaxId == 2
\* highest job id handed out when the daemon is crashed and started again
MaxCrashId == 1
\* highest job id handed out when clients also submit an empty command line
MaxAppkeyId == 1
\* number of daemon starts after the first one
MaxRestarts == 1
\* number of jobs in a state file the daemon is started on
MaxLoaded == 3
\* highest job id handed out when clients stop and resume the queue
MaxStopId == 2

\* ------------------------------------------------------- program constants
DEFAULT_STATE_LAST_ID == 0
SIGTERM == 15
ExitSuccess == 0
ExitNotFound == 127

\* command lines a client submits: a known appkey with arguments
CmdLines == {"sleep 60"}
\* the empty command line: its appkey is empty
EmptyCmdLine == ""
\* the appkey map handed to run_queue knows the appkey "sleep"
ValidAppkey(cmdline) == cmdline = "sleep 60"

QueueStates == {"Running", "Stopping", "Stopped"}

VARIABLES
    daemon,     \* "up" while the process runs, "down" after it ended;
                \*   "starting" and "loaded" are the steps of a start
    ready,      \* READY=1 was sent to the service manager in this run
    exitkind,   \* how the last run ended: "none", "crash", "exit0" or the
                \*   panic of the main thread
    run,        \* number of the current daemon run (1 = first start)
    q,          \* the JobQueue behind q_mutex
    file,       \* the state file on disk
    qlock,      \* holder of q_mutex: "none", "main", "sig"
    slock,      \* holder of the State mutex: "none", "main", "sig"
    qpoison,    \* q_mutex poisoned by a panic while it was held
    spoison,    \* State mutex poisoned
    dpc,        \* accept loop: "idle", "save", "write", "written", "respond"
    dreq,       \* the request being dispatched
    resp,       \* the (status, body) the dispatch computed
    spc,        \* queue runner: "acquire", "waiting", "woken", "spawn",
                \*   "assign", "child", "finalize", "dead"
    sjob,       \* the runner's snapshot of the job it dispatched
    sres,       \* the JobState the runner passes to finish
    child,      \* the child process of the runner
    sigpc,      \* signal thread: "idle", "lockq", "write", "exit", "dead"
    issued,     \* ids sent in SubmitJob responses during this run, in order
    everIssued, \* ids sent in SubmitJob responses since the first start
    dispatched, \* ids of the jobs schedule() handed to the runner in this run
    removed,    \* ids of the jobs a RemoveJob of this run returned
    presave     \* the state file as it was when the last save began

procvars == <<daemon, ready, exitkind, run>>
lockvars == <<qlock, slock, qpoison, spoison>>
dispvars == <<dpc, dreq, resp>>
schedvars == <<spc, sjob, sres, child>>
histvars == <<issued, everIssued, dispatched, removed, presave>>
vars == <<procvars, q, file, lockvars, dispvars, schedvars, sigpc, histvars>>

\* ------------------------------------------------------------- job_queue.rs
\* JobState: one record shape for the five variants
Queued == [tag |-> "Queued", code |-> 0, msg |-> ""]
Running == [tag |-> "Running", code |-> 0, msg |-> ""]
Terminated(c) == [tag |-> "Terminated", code |-> c, msg |-> ""]
Killed(s) == [tag |-> "Killed", code |-> s, msg |-> ""]
Failed(m) == [tag |-> "Failed", code |-> 0, msg |-> m]

InterruptedMsg == "Interrupted by system failure, please re-submit or ask for assistence"
SpawnErrorMsg == "spawn failed"

\* pid 0 stands for None
NoPid == 0

Job(id, cmdline) ==
    [id |-> id, cmdline |-> cmdline, started |-> FALSE, finished |-> FALSE,
     state |-> Queued, pid |-> NoPid]

NoJob == [id |-> 0, cmdline |-> "", started |-> FALSE, finished |-> FALSE,
          state |-> Queued, pid |-> NoPid]

new(last_id) ==
    [last_id |-> last_id, state |-> "Running", queue |-> <<>>, finished |-> <<>>]

\* Vec::remove that also drops what follows the element
RemoveAt_rest(s, i) == SubSeq(s, 1, i - 1)

\* Vec::remove(i - 1)
RemoveAt(s, i) == SubSeq(s, 1, i - 1) \o SubSeq(s, i + 1, Len(s))

\* index of the first element of s satisfying P, 0 if none
RECURSIVE FirstFrom(_, _, _)
FirstFrom(s, P(_), i) ==
    IF i > Len(s) THEN 0
    ELSE IF P(s[i]) THEN i
    ELSE FirstFrom(s, P, i + 1)

\* set_state() that stores the requested state as it is
set_state_plain(jq, new_state) ==
    [jq EXCEPT !.state = new_state]

set_state(jq, new_state) ==
    [jq EXCEPT !.state =
        IF new_state = "Stopping" /\ jq.queue = <<>> THEN "Stopped" ELSE new_state]

\* submit() that puts the new job in front of the queue
submit_front(jq, cmdline) ==
    [jq EXCEPT !.last_id = jq.last_id + 1,
               !.queue = <<Job(jq.last_id + 1, cmdline)>> \o jq.queue]

\* submit() that derives the id from the number of jobs it holds
submit_by_count(jq, cmdline) ==
    [jq EXCEPT !.last_id = Len(jq.queue) + Len(jq.finished) + 1,
               !.queue = Append(jq.queue,
                    Job(Len(jq.queue) + Len(jq.finished) + 1, cmdline))]

submit(jq, cmdline) ==
    [jq EXCEPT !.last_id = jq.last_id + 1,
               !.queue = Append(jq.queue, Job(jq.last_id + 1, cmdline))]

\* the job schedule() returns, NoJob for None
schedule_job(jq) ==
    IF jq.state = "Running" /\ jq.queue # <<>>
    THEN [jq.queue[1] EXCEPT !.started = TRUE, !.state = Running]
    ELSE NoJob

\* schedule() that dispatches the job at the tail instead of the head
schedule_tail(jq) ==
    IF jq.state = "Running" /\ jq.queue # <<>>
    THEN [jq EXCEPT !.queue[Len(jq.queue)].started = TRUE,
                    !.queue[Len(jq.queue)].state = Running]
    ELSE jq

\* schedule() that does not look at the queue state
schedule_always(jq) ==
    IF jq.queue # <<>>
    THEN [jq EXCEPT !.queue[1].started = TRUE, !.queue[1].state = Running]
    ELSE jq

schedule(jq) ==
    IF jq.state = "Running" /\ jq.queue # <<>>
    THEN [jq EXCEPT !.queue[1] = schedule_job(jq)]
    ELSE jq

\* assign_pid() that looks for the id alone, whatever the state of the job
assign_pid_any(jq, jobid, pid) ==
    LET i == FirstFrom(jq.queue, LAMBDA j : j.id = jobid, 1)
    IN  IF i = 0 THEN jq ELSE [jq EXCEPT !.queue[i].pid = pid]

assign_pid(jq, jobid, pid) ==
    LET i == FirstFrom(jq.queue, LAMBDA j : j.state = Running /\ j.id = jobid, 1)
    IN  IF i = 0 THEN jq ELSE [jq EXCEPT !.queue[i].pid = pid]

\* finish() panics when the head it removed is not Running
finish_panics(jq) == jq.queue # <<>> /\ jq.queue[1].state # Running

\* finish() that pushes the finished copy and leaves the head in queue
finish_keep(jq, new_state) ==
    IF jq.queue # <<>>
    THEN [jq EXCEPT
            !.finished = Append(jq.finished,
                [jq.queue[1] EXCEPT !.finished = TRUE, !.state = new_state]),
            !.state = IF jq.state = "Stopping" THEN "Stopped" ELSE jq.state]
    ELSE jq

\* finish() that leaves the finished time unset
finish_unstamped(jq, new_state) ==
    IF jq.queue # <<>>
    THEN [jq EXCEPT
            !.queue = Tail(jq.queue),
            !.finished = Append(jq.finished, [jq.queue[1] EXCEPT !.state = new_state]),
            !.state = IF jq.state = "Stopping" THEN "Stopped" ELSE jq.state]
    ELSE jq

\* finish() that moves the last job of queue instead of the head
finish_last(jq, new_state) ==
    IF jq.queue # <<>>
    THEN [jq EXCEPT
            !.queue = SubSeq(jq.queue, 1, Len(jq.queue) - 1),
            !.finished = Append(jq.finished,
                [jq.queue[Len(jq.queue)] EXCEPT !.finished = TRUE, !.state = new_state]),
            !.state = IF jq.state = "Stopping" THEN "Stopped" ELSE jq.state]
    ELSE jq

finish(jq, new_state) ==
    IF jq.queue # <<>>
    THEN [jq EXCEPT
            !.queue = Tail(jq.queue),
            !.finished = Append(jq.finished,
                [jq.queue[1] EXCEPT !.finished = TRUE, !.state = new_state]),
            !.state = IF jq.state = "Stopping" THEN "Stopped" ELSE jq.state]
    ELSE jq

\* reset_first_job() whose Queued case writes the state alone
reset_first_job_state(jq, new_state) ==
    IF jq.queue # <<>> /\ jq.queue[1].state # Queued
    THEN IF new_state = Queued
         THEN [jq EXCEPT !.queue[1].state = Queued]
         ELSE [jq EXCEPT
                !.queue = Tail(jq.queue),
                !.finished = Append(jq.finished,
                    [jq.queue[1] EXCEPT !.finished = TRUE, !.state = new_state])]
    ELSE jq

\* reset_first_job() that does not look at the state of the head
reset_first_job_any(jq, new_state) ==
    IF jq.queue # <<>>
    THEN IF new_state = Queued
         THEN [jq EXCEPT !.queue[1].started = FALSE,
                         !.queue[1].state = Queued,
                         !.queue[1].pid = NoPid]
         ELSE [jq EXCEPT
                !.queue = Tail(jq.queue),
                !.finished = Append(jq.finished,
                    [jq.queue[1] EXCEPT !.finished = TRUE, !.state = new_state])]
    ELSE jq

\* reset_first_job(JobState::Queued) and reset_first_job(JobState::Failed(s))
reset_first_job(jq, new_state) ==
    IF jq.queue # <<>> /\ jq.queue[1].state # Queued
    THEN IF new_state = Queued
         THEN [jq EXCEPT !.queue[1].started = FALSE,
                         !.queue[1].state = Queued,
                         !.queue[1].pid = NoPid]
         ELSE finish(jq, new_state)
    ELSE jq

\* remove() that also takes a Running job out of queue
remove_any(jq, id) ==
    LET fi == FirstFrom(jq.finished, LAMBDA j : j.id = id, 1)
        qi == FirstFrom(jq.queue, LAMBDA j : j.id = id, 1)
    IN  IF fi # 0
        THEN [res |-> "ok", job |-> jq.finished[fi],
              jq |-> [jq EXCEPT !.finished = RemoveAt(jq.finished, fi)]]
        ELSE IF qi # 0
        THEN [res |-> "ok", job |-> jq.queue[qi],
              jq |-> [jq EXCEPT !.queue = RemoveAt(jq.queue, qi)]]
        ELSE [res |-> "NoSuchJob", job |-> NoJob, jq |-> jq]

\* remove(): "ok", "WrongJobState" or "NoSuchJob", the queue afterwards and
\* the job returned
remove(jq, id) ==
    LET fi == FirstFrom(jq.finished, LAMBDA j : j.id = id, 1)
        qi == FirstFrom(jq.queue, LAMBDA j : j.id = id, 1)
    IN  IF fi # 0
        THEN [res |-> "ok", job |-> jq.finished[fi],
              jq |-> [jq EXCEPT !.finished = RemoveAt(jq.finished, fi)]]
        ELSE IF qi # 0 /\ jq.queue[qi].state = Running
        THEN [res |-> "WrongJobState", job |-> NoJob, jq |-> jq]
        ELSE IF qi # 0
        THEN [res |-> "ok", job |-> jq.queue[qi],
              jq |-> [jq EXCEPT !.queue = RemoveAt(jq.queue, qi)]]
        ELSE [res |-> "NoSuchJob", job |-> NoJob, jq |-> jq]

\* send_sigterm() that looks for the id alone, whatever the state of the job
sigterm_target_any(jq, jobid) ==
    FirstFrom(jq.queue, LAMBDA j : j.id = jobid, 1)

\* send_sigterm(): index in queue of the Running job with this id, 0 if none
sigterm_target(jq, jobid) ==
    FirstFrom(jq.queue, LAMBDA j : j.state = Running /\ j.id = jobid, 1)

\* ----------------------------------------------------------------- state.rs
NoFile == [kind |-> "absent", body |-> new(DEFAULT_STATE_LAST_ID)]
\* the file after File::create truncated it, or with a partial document
Truncated == [kind |-> "truncated", body |-> new(DEFAULT_STATE_LAST_ID)]
\* Serialize for JobState: a unit variant is its name, a variant with a
\* value is an object with the name as its only key
EncodeJobState(st) ==
    CASE st.tag \in {"Queued", "Running"} -> [variant |-> st.tag, payload |-> <<>>]
      [] st.tag \in {"Terminated", "Killed"} -> [variant |-> st.tag, payload |-> <<st.code>>]
      [] OTHER -> [variant |-> st.tag, payload |-> <<st.msg>>]

\* Deserialize for JobState that reads Killed as Terminated
DecodeJobState_lossy(v) ==
    CASE v.variant = "Queued" -> Queued
      [] v.variant = "Running" -> Running
      [] v.variant \in {"Terminated", "Killed"} -> Terminated(v.payload[1])
      [] OTHER -> Failed(v.payload[1])

\* Deserialize for JobState
DecodeJobState(v) ==
    CASE v.variant = "Queued" -> Queued
      [] v.variant = "Running" -> Running
      [] v.variant = "Terminated" -> Terminated(v.payload[1])
      [] v.variant = "Killed" -> Killed(v.payload[1])
      [] OTHER -> Failed(v.payload[1])

\* Serialize for Job: an Option is null or the value
EncodeJob(j) ==
    [id |-> j.id, cmdline |-> j.cmdline,
     started |-> IF j.started THEN "time" ELSE "null",
     finished |-> IF j.finished THEN "time" ELSE "null",
     state |-> EncodeJobState(j.state),
     pid |-> IF j.pid = NoPid THEN [null |-> TRUE, value |-> 0]
             ELSE [null |-> FALSE, value |-> j.pid]]

\* Deserialize for Job
DecodeJob(e) ==
    [id |-> e.id, cmdline |-> e.cmdline,
     started |-> e.started # "null",
     finished |-> e.finished # "null",
     state |-> DecodeJobState(e.state),
     pid |-> IF e.pid.null THEN NoPid ELSE e.pid.value]

\* serde_json::to_writer_pretty: the document with the four fields
Document(jq) ==
    [kind |-> "json",
     body |-> [last_id |-> jq.last_id, state |-> jq.state,
               queue |-> [i \in DOMAIN jq.queue |-> EncodeJob(jq.queue[i])],
               finished |-> [i \in DOMAIN jq.finished |-> EncodeJob(jq.finished[i])]]]

load_queue(f) ==
    IF f.kind = "json"
    THEN [last_id |-> f.body.last_id, state |-> f.body.state,
          queue |-> [i \in DOMAIN f.body.queue |-> DecodeJob(f.body.queue[i])],
          finished |-> [i \in DOMAIN f.body.finished |-> DecodeJob(f.body.finished[i])]]
    ELSE new(DEFAULT_STATE_LAST_ID)

\* --------------------------------------------------------- protocol values
NoReq == [op |-> "none", id |-> 0, cmdline |-> "", qs |-> "Running"]
SubmitJobReq(c) == [op |-> "SubmitJob", id |-> 0, cmdline |-> c, qs |-> "Running"]
RemoveJobReq(i) == [op |-> "RemoveJob", id |-> i, cmdline |-> "", qs |-> "Running"]
KillJobReq(i) == [op |-> "KillJob", id |-> i, cmdline |-> "", qs |-> "Running"]
SetQueueStateReq(s) == [op |-> "SetQueueState", id |-> 0, cmdline |-> "", qs |-> s]
GetReq(o) == [op |-> o, id |-> 0, cmdline |-> "", qs |-> "Running"]

NoResp == [status |-> 0, kind |-> "none", id |-> 0, msg |-> "", qs |-> "Running", jobs |-> <<>>]
SubmitJobResp(i) == [NoResp EXCEPT !.status = 200, !.kind = "SubmitJob", !.id = i]
GetJobsResp(js) == [NoResp EXCEPT !.status = 200, !.kind = "GetJobs", !.jobs = js]
GetJobResp(j) == [NoResp EXCEPT !.status = 200, !.kind = "GetJob", !.jobs = <<j>>]
QueueStateResp(s) == [NoResp EXCEPT !.status = 200, !.kind = "QueueState", !.qs = s]
OkResp == [NoResp EXCEPT !.status = 200, !.kind = "Ok"]
ErrorResp(code, m) == [NoResp EXCEPT !.status = code, !.kind = "Error", !.msg = m]

NoSuchJobMsg == "No such job"
WrongJobStateMsg == "Job is currently running and cannot be removed"
NotRunningMsg == "Job is currently not running."
ParseErrorMsg == "parse error"

\* ---------------------------------------------------------------- processes
NoChild == [pid |-> NoPid, st |-> "none", code |-> 0]
\* the pid the operating system gives the child of job id in daemon run r
PidOf(r, id) == 10 * r + id

\* handle(): load_queue and the recovery block
recover(jq) ==
    IF jq.state = "Stopped" THEN jq
    ELSE IF jq.state = "Stopping" THEN reset_first_job(jq, Queued)
    ELSE reset_first_job(jq, Failed(InterruptedMsg))

\* cvar.notify_one(): wakes the runner if it sleeps in cvar.wait
notify_one(pc) == IF pc = "waiting" THEN "woken" ELSE pc

Init ==
    /\ daemon = "up"
    /\ ready = TRUE
    /\ exitkind = "none"
    /\ run = 1
    /\ file = NoFile
    /\ q = recover(load_queue(NoFile))
    /\ qlock = "none" /\ slock = "none"
    /\ qpoison = FALSE /\ spoison = FALSE
    /\ dpc = "idle" /\ dreq = NoReq /\ resp = NoResp
    /\ spc = "acquire" /\ sjob = NoJob /\ sres = Queued /\ child = NoChild
    /\ sigpc = "idle"
    /\ issued = <<>>
    /\ everIssued = {}
    /\ dispatched = {}
    /\ removed = {}
    /\ presave = NoFile

\* the process ends: every thread and all memory is gone, the file stays
Down(kind) ==
    /\ daemon' = "down"
    /\ ready' = FALSE
    /\ exitkind' = kind
    /\ q' = new(DEFAULT_STATE_LAST_ID)
    /\ qlock' = "none" /\ slock' = "none"
    /\ qpoison' = FALSE /\ spoison' = FALSE
    /\ dpc' = "idle" /\ dreq' = NoReq /\ resp' = NoResp
    /\ spc' = "acquire" /\ sjob' = NoJob /\ sres' = Queued /\ child' = NoChild
    /\ sigpc' = "idle"
    /\ issued' = <<>>
    /\ dispatched' = {}
    /\ removed' = {}
    /\ UNCHANGED <<run, everIssued, presave>>

\* the process is killed or the host fails, at any point
Crash ==
    /\ daemon = "up"
    /\ Down("crash")
    /\ UNCHANGED file

\* main.rs / handle(): the daemon is started again on the same state file
Startup ==
    /\ daemon = "down"
    /\ run <= MaxRestarts
    /\ daemon' = "up"
    /\ ready' = TRUE
    /\ exitkind' = "none"
    /\ run' = run + 1
    /\ q' = recover(load_queue(file))
    /\ presave' = file
    /\ UNCHANGED <<file, lockvars, dispvars, schedvars, sigpc, issued, everIssued, dispatched, removed>>

\* handle(), step by step: daemon::notify(READY=1) once the socket is bound
HandleNotifyReady ==
    /\ daemon = "down"
    /\ run <= MaxRestarts
    /\ daemon' = "starting"
    /\ ready' = TRUE
    /\ exitkind' = "none"
    /\ run' = run + 1
    /\ UNCHANGED <<q, file, lockvars, dispvars, schedvars, sigpc, histvars>>

\* state.load_queue() and the recovery block
HandleLoadQueue ==
    /\ daemon = "starting"
    /\ daemon' = "loaded"
    /\ q' = recover(load_queue(file))
    /\ presave' = file
    /\ UNCHANGED <<ready, exitkind, run, file, lockvars, dispvars, schedvars, sigpc, issued, everIssued, dispatched, removed>>

\* the "Queue Runner" thread is spawned; the signal handler and the accept
\* loop follow
HandleSpawnRunner ==
    /\ daemon = "loaded"
    /\ daemon' = "up"
    /\ spc' = "acquire"
    /\ UNCHANGED <<ready, exitkind, run, q, file, lockvars, dispvars, sjob, sres, child, sigpc, histvars>>

\* ------------------------------------------------------ run_queue (runner)
\* top of the acquire loop: lock, schedule(), else cvar.wait
SchedAcquire ==
    /\ daemon = "up" /\ spc = "acquire" /\ qlock = "none"
    /\ IF qpoison
       THEN /\ spc' = "dead"
            /\ UNCHANGED <<q, sjob, dispatched>>
       ELSE /\ q' = schedule(q)
            /\ sjob' = schedule_job(q)
            /\ spc' = IF schedule_job(q) # NoJob THEN "spawn" ELSE "waiting"
            /\ dispatched' = IF schedule_job(q) # NoJob
                             THEN dispatched \cup {schedule_job(q).id} ELSE dispatched
    /\ UNCHANGED <<procvars, file, lockvars, dispvars, sres, child, sigpc, issued, everIssued, removed, presave>>

\* cvar.wait may return without a notification
SchedSpuriousWake ==
    /\ daemon = "up" /\ spc = "waiting"
    /\ spc' = "woken"
    /\ UNCHANGED <<procvars, q, file, lockvars, dispvars, sjob, sres, child, sigpc, histvars>>

\* cvar.wait re-acquires the lock, then job = q.schedule()
SchedWoken ==
    /\ daemon = "up" /\ spc = "woken" /\ qlock = "none"
    /\ IF qpoison
       THEN /\ spc' = "dead"
            /\ UNCHANGED <<q, sjob, dispatched>>
       ELSE /\ q' = schedule(q)
            /\ sjob' = schedule_job(q)
            /\ spc' = IF schedule_job(q) # NoJob THEN "spawn" ELSE "acquire"
            /\ dispatched' = IF schedule_job(q) # NoJob
                             THEN dispatched \cup {schedule_job(q).id} ELSE dispatched
    /\ UNCHANGED <<procvars, file, lockvars, dispvars, sres, child, sigpc, issued, everIssued, removed, presave>>

\* Command::new("sh") ... .spawn(): a child, or an error
SchedSpawn ==
    /\ daemon = "up" /\ spc = "spawn"
    /\ \/ /\ child' = [pid |-> PidOf(run, sjob.id), st |-> "alive", code |-> 0]
          /\ spc' = "assign"
          /\ UNCHANGED sres
       \/ /\ sres' = Failed(SpawnErrorMsg)
          /\ spc' = "finalize"
          /\ UNCHANGED child
    /\ UNCHANGED <<procvars, q, file, lockvars, dispvars, sjob, sigpc, histvars>>

\* the and_then closure with the queue guard alive across wait_with_output
SchedAssignPid_holding ==
    /\ daemon = "up" /\ spc = "assign" /\ qlock = "none"
    /\ IF qpoison
       THEN /\ spc' = "dead"
            /\ UNCHANGED <<q, qlock>>
       ELSE /\ q' = assign_pid(q, sjob.id, child.pid)
            /\ qlock' = "sched"
            /\ spc' = "child"
    /\ UNCHANGED <<procvars, file, slock, qpoison, spoison, dispvars, sjob, sres, child, sigpc, histvars>>

\* the and_then closure: lock, assign_pid(job.id, child.id()), and the guard
\* is dropped before child.wait_with_output()
SchedAssignPid ==
    /\ daemon = "up" /\ spc = "assign" /\ qlock = "none"
    /\ IF qpoison
       THEN /\ spc' = "dead"
            /\ UNCHANGED q
       ELSE /\ q' = assign_pid(q, sjob.id, child.pid)
            /\ spc' = "child"
    /\ UNCHANGED <<procvars, file, lockvars, dispvars, sjob, sres, child, sigpc, histvars>>

\* the child ends by itself: sh exits with 127 when the appkey resolved to
\* invalid-appkey, the program's exit code otherwise
ChildExit ==
    /\ daemon = "up" /\ child.st = "alive"
    /\ child' = [child EXCEPT !.st = "exited",
                    !.code = IF ValidAppkey(sjob.cmdline) THEN ExitSuccess ELSE ExitNotFound]
    /\ UNCHANGED <<procvars, q, file, lockvars, dispvars, spc, sjob, sres, sigpc, histvars>>

\* the runner's match on the exit status without the signal() case
SchedReap_exitcode ==
    /\ daemon = "up" /\ spc = "child" /\ child.st \in {"exited", "killed"}
    /\ sres' = Terminated(child.code)
    /\ child' = NoChild
    /\ spc' = "finalize"
    /\ UNCHANGED <<procvars, q, file, lockvars, dispvars, sjob, sigpc, histvars>>

\* child.wait_with_output() returns: the exit status decides the JobState
SchedReap ==
    /\ daemon = "up" /\ spc = "child" /\ child.st \in {"exited", "killed"}
    /\ sres' = IF child.st = "killed" THEN Killed(child.code) ELSE Terminated(child.code)
    /\ child' = NoChild
    /\ spc' = "finalize"
    /\ UNCHANGED <<procvars, q, file, lockvars, dispvars, sjob, sigpc, histvars>>

\* lock, q.finish(...); the runner does not touch the state file
SchedFinalize ==
    /\ daemon = "up" /\ spc = "finalize" /\ qlock = "none"
    /\ IF qpoison
       THEN /\ spc' = "dead"
            /\ UNCHANGED <<q, qpoison, sjob>>
       ELSE IF finish_panics(q)
       THEN /\ spc' = "dead"
            /\ qpoison' = TRUE
            /\ q' = [q EXCEPT !.queue = Tail(q.queue)]
            /\ UNCHANGED sjob
       ELSE /\ q' = finish(q, sres)
            /\ spc' = "acquire"
            /\ sjob' = NoJob
            /\ UNCHANGED qpoison
    /\ UNCHANGED <<procvars, file, qlock, slock, spoison, dispvars, sres, child, sigpc, histvars>>

\* ------------------------------------------------ handle_client (dispatcher)
\* a thread that panics in the accept loop ends the process: handle() runs
\* on the main thread
MainPanic(why) == Down(why)

\* q_mutex.lock().unwrap() on a poisoned mutex
HandlePoisoned ==
    /\ daemon = "up" /\ dpc = "idle" /\ qlock = "none" /\ qpoison
    /\ MainPanic("panic: poisoned lock")
    /\ UNCHANGED file

\* SubmitJob that drops the queue guard before the save
HandleSubmitJob_unlocked(c) ==
    /\ daemon = "up" /\ dpc = "idle" /\ qlock = "none" /\ ~qpoison
    /\ qlock' = "none"
    /\ q' = submit(q, c)
    /\ dreq' = SubmitJobReq(c)
    /\ resp' = SubmitJobResp(submit(q, c).last_id)
    /\ dpc' = "save"
    /\ UNCHANGED <<procvars, file, slock, qpoison, spoison, schedvars, sigpc, histvars>>

\* SubmitJob: lock, q.submit(cmdline); the save follows under the lock
HandleSubmitJob(c) ==
    /\ daemon = "up" /\ dpc = "idle" /\ qlock = "none" /\ ~qpoison
    /\ qlock' = "main"
    /\ q' = submit(q, c)
    /\ dreq' = SubmitJobReq(c)
    /\ resp' = SubmitJobResp(submit(q, c).last_id)
    /\ dpc' = "save"
    /\ UNCHANGED <<procvars, file, slock, qpoison, spoison, schedvars, sigpc, histvars>>

\* RemoveJob: lock, q.remove(id); saved whatever remove returned
HandleRemoveJob(id) ==
    /\ daemon = "up" /\ dpc = "idle" /\ qlock = "none" /\ ~qpoison
    /\ qlock' = "main"
    /\ q' = remove(q, id).jq
    /\ dreq' = RemoveJobReq(id)
    /\ resp' = CASE remove(q, id).res = "ok" -> GetJobResp(remove(q, id).job)
                 [] remove(q, id).res = "NoSuchJob" -> ErrorResp(422, NoSuchJobMsg)
                 [] OTHER -> ErrorResp(422, WrongJobStateMsg)
    /\ removed' = IF remove(q, id).res = "ok" THEN removed \cup {remove(q, id).job.id} ELSE removed
    /\ dpc' = "save"
    /\ UNCHANGED <<procvars, file, slock, qpoison, spoison, schedvars, sigpc, issued, everIssued, dispatched, presave>>

\* SetQueueState that leaves out cvar.notify_one()
HandleSetQueueState_silent(s) ==
    /\ daemon = "up" /\ dpc = "idle" /\ qlock = "none" /\ ~qpoison
    /\ qlock' = "main"
    /\ q' = set_state(q, s)
    /\ dreq' = SetQueueStateReq(s)
    /\ resp' = QueueStateResp(s)
    /\ dpc' = "save"
    /\ UNCHANGED <<procvars, file, slock, qpoison, spoison, schedvars, sigpc, histvars>>

\* SetQueueState: lock, q.set_state(new_state), cvar.notify_one(); the
\* response carries the requested state
HandleSetQueueState(s) ==
    /\ daemon = "up" /\ dpc = "idle" /\ qlock = "none" /\ ~qpoison
    /\ qlock' = "main"
    /\ q' = set_state(q, s)
    /\ spc' = notify_one(spc)
    /\ dreq' = SetQueueStateReq(s)
    /\ resp' = QueueStateResp(s)
    /\ dpc' = "save"
    /\ UNCHANGED <<procvars, file, slock, qpoison, spoison, sjob, sres, child, sigpc, histvars>>

\* state.lock() and File::create(): the file is truncated
HandleSaveCreate ==
    /\ daemon = "up" /\ dpc = "save" /\ slock = "none" /\ ~spoison
    /\ slock' = "main"
    /\ presave' = file
    /\ file' = Truncated
    /\ dpc' = "write"
    /\ UNCHANGED <<procvars, q, qlock, qpoison, spoison, dreq, resp, schedvars, sigpc, issued, everIssued, dispatched, removed>>

\* serde_json::to_writer_pretty() writes the document
HandleSaveWrite ==
    /\ daemon = "up" /\ dpc = "write"
    /\ file' = Document(q)
    /\ presave' = Document(q)
    /\ dpc' = "written"
    /\ UNCHANGED <<procvars, q, lockvars, dreq, resp, schedvars, sigpc, issued, everIssued, dispatched, removed>>

\* for SubmitJob cvar.notify_one(); the match arm ends and drops both guards
HandleSaveDone ==
    /\ daemon = "up" /\ dpc = "written"
    /\ spc' = IF dreq.op = "SubmitJob" THEN notify_one(spc) ELSE spc
    /\ qlock' = "none" /\ slock' = "none"
    /\ dpc' = "respond"
    /\ UNCHANGED <<procvars, q, file, qpoison, spoison, dreq, resp, sjob, sres, child, sigpc, histvars>>

\* state.save() returns Err, or state.lock() finds the mutex poisoned:
\* expect()/unwrap() panics
HandleSaveFails ==
    /\ daemon = "up"
    /\ \/ dpc = "save" /\ slock = "none"
       \/ dpc = "write"
    /\ MainPanic("panic: Could not write program state")
    /\ UNCHANGED file

\* KillJob: lock, q.send_sigterm(id)
HandleKillJob(id) ==
    /\ daemon = "up" /\ dpc = "idle" /\ qlock = "none" /\ ~qpoison
    /\ LET i == sigterm_target(q, id) IN
       IF i = 0
       THEN \* no Running job with this id
            /\ resp' = ErrorResp(422, NotRunningMsg)
            /\ dreq' = KillJobReq(id)
            /\ dpc' = "respond"
            /\ UNCHANGED <<procvars, q, file, lockvars, schedvars, sigpc, histvars>>
       ELSE IF q.queue[i].pid = NoPid
       THEN \* job.pid.unwrap() on None
            /\ MainPanic("panic: unwrap on a None pid")
            /\ UNCHANGED file
       ELSE IF child.st # "none" /\ child.pid = q.queue[i].pid
       THEN \* /bin/kill reaches the runner's child: exit code 0
            /\ \/ child' = child
               \/ /\ child.st = "alive"
                  /\ child' = [child EXCEPT !.st = "killed", !.code = SIGTERM]
            /\ resp' = OkResp
            /\ dreq' = KillJobReq(id)
            /\ dpc' = "respond"
            /\ UNCHANGED <<procvars, q, file, lockvars, spc, sjob, sres, sigpc, histvars>>
       ELSE \* the pid is not the runner's child: /bin/kill fails, or hits
            \* whatever process has that pid now
            /\ \E hit \in BOOLEAN :
                  resp' = IF hit THEN OkResp ELSE ErrorResp(422, NotRunningMsg)
            /\ dreq' = KillJobReq(id)
            /\ dpc' = "respond"
            /\ UNCHANGED <<procvars, q, file, lockvars, schedvars, sigpc, histvars>>

\* GetQueuedJobs, GetFinishedJobs, GetQueueState: lock, read, unlock
HandleGet(op) ==
    /\ daemon = "up" /\ dpc = "idle" /\ qlock = "none" /\ ~qpoison
    /\ dreq' = GetReq(op)
    /\ resp' = CASE op = "GetQueuedJobs" -> GetJobsResp(q.queue)
                 [] op = "GetFinishedJobs" -> GetJobsResp(q.finished)
                 [] OTHER -> QueueStateResp(q.state)
    /\ dpc' = "respond"
    /\ UNCHANGED <<procvars, q, file, lockvars, schedvars, sigpc, histvars>>

\* httprequest.as_reader().read_to_string(&mut s).unwrap(): a body that is
\* not valid UTF-8 makes read_to_string return Err, and unwrap() panics
HandleUnreadableBody ==
    /\ daemon = "up" /\ dpc = "idle"
    /\ MainPanic("panic: unwrap on a body read error")
    /\ UNCHANGED file

\* the body is text that serde_json::from_str rejects
HandleBadRequest ==
    /\ daemon = "up" /\ dpc = "idle"
    /\ dreq' = GetReq("unparsable")
    /\ \E code \in {400, 500} : resp' = ErrorResp(code, ParseErrorMsg)
    /\ dpc' = "respond"
    /\ UNCHANGED <<procvars, q, file, lockvars, schedvars, sigpc, histvars>>

\* httprequest.respond(response)
Respond ==
    /\ daemon = "up" /\ dpc = "respond"
    /\ dpc' = "idle"
    /\ dreq' = NoReq
    /\ resp' = NoResp
    /\ issued' = IF resp.kind = "SubmitJob" THEN Append(issued, resp.id) ELSE issued
    /\ everIssued' = IF resp.kind = "SubmitJob" THEN everIssued \cup {resp.id} ELSE everIssued
    /\ UNCHANGED <<procvars, q, file, lockvars, schedvars, sigpc, dispatched, removed, presave>>

\* ------------------------------------------- setup_signal_handler (SIGTERM)
\* the daemon receives SIGTERM and the signal thread gets through
\* state.lock().unwrap(): a handler that finds the State mutex held waits
\* for it, which is a later step of this action. Only the signal thread
\* itself can leave the State mutex poisoned, and then it is gone.
Sigterm ==
    /\ daemon = "up" /\ sigpc = "idle" /\ slock = "none" /\ ~spoison
    /\ slock' = "sig"
    /\ sigpc' = "lockq"
    /\ UNCHANGED <<procvars, q, file, qlock, qpoison, spoison, dispvars, schedvars, histvars>>

\* job_queue.0.lock().unwrap(), then File::create() in state.save()
SigLockQ ==
    /\ daemon = "up" /\ sigpc = "lockq" /\ qlock = "none"
    /\ IF qpoison
       THEN /\ sigpc' = "dead"
            /\ slock' = "none"
            /\ spoison' = TRUE
            /\ UNCHANGED <<qlock, file>>
       ELSE /\ qlock' = "sig"
            /\ file' = Truncated
            /\ sigpc' = "write"
            /\ UNCHANGED <<slock, spoison>>
    /\ presave' = IF qpoison THEN presave ELSE file
    /\ UNCHANGED <<procvars, q, qpoison, dispvars, schedvars, issued, everIssued, dispatched, removed>>

\* serde_json::to_writer_pretty() writes the document
SigWrite ==
    /\ daemon = "up" /\ sigpc = "write"
    /\ file' = Document(q)
    /\ presave' = Document(q)
    /\ sigpc' = "exit"
    /\ UNCHANGED <<procvars, q, lockvars, dispvars, schedvars, issued, everIssued, dispatched, removed>>

\* std::process::exit(0)
SigExit ==
    /\ daemon = "up" /\ sigpc = "exit"
    /\ Down("exit0")
    /\ UNCHANGED file

\* state.save() returns Err in the signal thread: expect() panics, the
\* thread ends and both mutexes are poisoned; the process keeps running
SigSaveFails ==
    /\ daemon = "up" /\ sigpc = "write"
    /\ sigpc' = "dead"
    /\ qlock' = "none" /\ slock' = "none"
    /\ qpoison' = TRUE /\ spoison' = TRUE
    /\ UNCHANGED <<procvars, q, file, dispvars, schedvars, histvars>>

\* the threads of one daemon run; clients name job ids up to n + 1
Threads(n) ==
    \/ SchedAcquire
    \/ SchedSpuriousWake
    \/ SchedWoken
    \/ SchedSpawn
    \/ SchedAssignPid
    \/ ChildExit
    \/ SchedReap
    \/ SchedFinalize
    \/ HandlePoisoned
    \/ \E id \in 1..(n + 1) : HandleRemoveJob(id)
    \/ \E s \in QueueStates : HandleSetQueueState(s)
    \/ HandleSaveCreate
    \/ HandleSaveWrite
    \/ HandleSaveDone
    \/ HandleSaveFails
    \/ \E id \in 1..(n + 1) : HandleKillJob(id)
    \/ \E op \in {"GetQueuedJobs", "GetFinishedJobs", "GetQueueState"} : HandleGet(op)
    \/ HandleBadRequest
    \/ HandleUnreadableBody
    \/ Respond
    \/ Sigterm
    \/ SigLockQ
    \/ SigWrite
    \/ SigExit
    \/ SigSaveFails

\* one daemon run from a missing state file, until the process ends
Next ==
    \/ Threads(MaxId)
    \/ \E c \in CmdLines : q.last_id < MaxId /\ HandleSubmitJob(c)

Spec == Init /\ [][Next]_vars

\* daemon runs with crashes at any point and restarts on the same state file
NextCrash ==
    \/ Threads(MaxCrashId)
    \/ \E c \in CmdLines : q.last_id < MaxCrashId /\ HandleSubmitJob(c)
    \/ Crash
    \/ Startup

SpecCrash == Init /\ [][NextCrash]_vars

\* one daemon run in which clients also submit the empty command line
NextAppkey ==
    \/ Threads(MaxAppkeyId)
    \/ \E c \in CmdLines \cup {EmptyCmdLine} :
            q.last_id < MaxAppkeyId /\ HandleSubmitJob(c)

SpecAppkey == Init /\ [][NextAppkey]_vars

\* a job as a daemon run leaves it in the state file
LoadedJob(id, st, pid) ==
    [id |-> id, cmdline |-> "sleep 60", started |-> st # Queued,
     finished |-> st \notin {Queued, Running}, state |-> st, pid |-> pid]

\* the queues a daemon run can have saved: jobs 1..k are finished, jobs
\* k+1..k+m are in queue in this order, and only the head of queue can be
\* Running, with or without a pid
LoadedQueues ==
    UNION {
        { [last_id |-> k + m,
           state |-> s,
           queue |-> [i \in 1..m |->
                        IF i = 1
                        THEN LoadedJob(k + 1, hs,
                                IF hs = Running /\ haspid THEN PidOf(1, k + 1) ELSE NoPid)
                        ELSE LoadedJob(k + i, Queued, NoPid)],
           finished |-> [i \in 1..k |-> LoadedJob(i, fs, PidOf(1, i))]] :
            m \in 0..(MaxLoaded - k),
            s \in QueueStates,
            hs \in {Queued, Running},
            haspid \in BOOLEAN,
            fs \in {Terminated(ExitSuccess), Killed(SIGTERM)} } :
        k \in 0..MaxLoaded }

\* the daemon is down and the state file holds what an earlier run saved
InitLoaded ==
    /\ daemon = "down"
    /\ ready = FALSE
    /\ exitkind = "crash"
    /\ run = 1
    /\ \E jq \in LoadedQueues : file = Document(jq)
    /\ q = new(DEFAULT_STATE_LAST_ID)
    /\ qlock = "none" /\ slock = "none"
    /\ qpoison = FALSE /\ spoison = FALSE
    /\ dpc = "idle" /\ dreq = NoReq /\ resp = NoResp
    /\ spc = "acquire" /\ sjob = NoJob /\ sres = Queued /\ child = NoChild
    /\ sigpc = "idle"
    /\ issued = <<>>
    /\ everIssued = {}
    /\ dispatched = {}
    /\ removed = {}
    /\ presave = file

\* handle() loads the state file and runs the recovery block
NextLoaded == Startup

SpecLoaded == InitLoaded /\ [][NextLoaded]_vars

\* the steps of the runner thread that the thread takes by itself
RunnerStep ==
    \/ SchedAcquire
    \/ SchedWoken
    \/ SchedSpawn
    \/ SchedAssignPid
    \/ SchedReap
    \/ SchedFinalize

\* the steps that bring a dispatch in progress to its response
DispatchStep ==
    \/ HandleSaveCreate
    \/ HandleSaveWrite
    \/ HandleSaveDone
    \/ Respond

\* the threads keep running, a thread that waits for a mutex which is
\* released again and again gets it, and every child process exits
Fairness ==
    /\ SF_vars(RunnerStep)
    /\ SF_vars(DispatchStep)
    /\ WF_vars(ChildExit)

\* one daemon run in which the queue state stays Running, no job is removed,
\* every save succeeds and the daemon gets no SIGTERM
NextLive ==
    \/ RunnerStep
    \/ SchedSpuriousWake
    \/ ChildExit
    \/ DispatchStep
    \/ \E c \in CmdLines \cup {EmptyCmdLine} :
            q.last_id < MaxAppkeyId /\ HandleSubmitJob(c)
    \/ \E id \in 1..(MaxAppkeyId + 1) : HandleKillJob(id)
    \/ \E op \in {"GetQueuedJobs", "GetFinishedJobs", "GetQueueState"} : HandleGet(op)

SpecLive == Init /\ [][NextLive]_vars /\ Fairness

\* one daemon run in which clients submit jobs and stop and resume the
\* queue; every save succeeds and the daemon gets no SIGTERM
NextStop ==
    \/ RunnerStep
    \/ SchedSpuriousWake
    \/ ChildExit
    \/ DispatchStep
    \/ \E c \in CmdLines : q.last_id < MaxStopId /\ HandleSubmitJob(c)
    \/ \E s \in {"Stopping", "Running"} : HandleSetQueueState(s)

SpecStop == Init /\ [][NextStop]_vars /\ Fairness

\* a daemon start on a saved state file and the run that follows: the
\* runner works, clients submit jobs and stop and resume the queue
NextRestart ==
    \/ Startup
    \/ RunnerStep
    \/ SchedSpuriousWake
    \/ ChildExit
    \/ DispatchStep
    \/ \E c \in CmdLines : q.last_id < MaxLoaded /\ HandleSubmitJob(c)
    \/ \E s \in {"Stopping", "Running"} : HandleSetQueueState(s)

SpecRestart == InitLoaded /\ [][NextRestart]_vars

\* one daemon run with fair threads in which clients submit jobs and stop
\* and resume the queue, and no client sends SetQueueState while the queue
\* is Stopping; every save succeeds and the daemon gets no SIGTERM
NextDrain ==
    \/ RunnerStep
    \/ SchedSpuriousWake
    \/ ChildExit
    \/ DispatchStep
    \/ \E c \in CmdLines : q.last_id < MaxStopId /\ HandleSubmitJob(c)
    \/ \E s \in {"Stopping", "Running"} : q.state # "Stopping" /\ HandleSetQueueState(s)

SpecDrain == Init /\ [][NextDrain]_vars /\ Fairness

\* assign_pid(jobid, pid) as a function: the runner is about to call it on
\* any queue a daemon can hold, for any job id and the pid of its child
InitAssign ==
    /\ daemon = "up"
    /\ ready = TRUE
    /\ exitkind = "none"
    /\ run = 2
    /\ \E jq \in LoadedQueues :
            /\ q = jq
            /\ file = Document(jq)
    /\ qlock = "none" /\ slock = "none"
    /\ qpoison = FALSE /\ spoison = FALSE
    /\ dpc = "idle" /\ dreq = NoReq /\ resp = NoResp
    /\ spc = "assign"
    /\ \E id \in 1..(MaxLoaded + 1) :
            /\ sjob = [Job(id, "sleep 60") EXCEPT !.started = TRUE, !.state = Running]
            /\ child = [pid |-> PidOf(run, id), st |-> "alive", code |-> 0]
    /\ sres = Queued
    /\ sigpc = "idle"
    /\ issued = <<>>
    /\ everIssued = {}
    /\ dispatched = {}
    /\ removed = {}
    /\ presave = file

NextAssign == SchedAssignPid

SpecAssign == InitAssign /\ [][NextAssign]_vars

\* a daemon start on a saved state file, in the order of handle()
NextStartup ==
    \/ HandleNotifyReady
    \/ HandleLoadQueue
    \/ HandleSpawnRunner

SpecStartup == InitLoaded /\ [][NextStartup]_vars

TypeOK ==
    /\ daemon \in {"up", "down", "starting", "loaded"}
    /\ ready \in BOOLEAN
    /\ qlock \in {"none", "main", "sig"}
    /\ slock \in {"none", "main", "sig"}
    /\ dpc \in {"idle", "save", "write", "written", "respond"}
    /\ spc \in {"acquire", "waiting", "woken", "spawn", "assign", "child", "finalize", "dead"}
    /\ sigpc \in {"idle", "lockq", "write", "exit", "dead"}
    /\ q.state \in QueueStates
    /\ q.last_id >= 0

\* ------------------------------------------------------------------ claims
IdsOf(jobs) == {jobs[i].id : i \in DOMAIN jobs}
AllJobs == q.queue \o q.finished
HasRunning(jobs) == \E i \in DOMAIN jobs : jobs[i].state = Running

\* C1: in every reachable state of a daemon run, a job of `queue` that is
\* Running is at index 0 (the head), so at most one job is Running.
AtMostOneRunningAtHead ==
    daemon = "up" =>
        \A i \in DOMAIN q.queue : q.queue[i].state = Running => i = 1

\* a Running head with a Queued job behind it
C1Witness ==
    /\ daemon = "up"
    /\ Len(q.queue) >= 2
    /\ q.queue[1].state = Running
    /\ q.queue[2].state = Queued

\* C2: within one daemon run the ids of the SubmitJob responses increase
\* strictly, the ids in queue and finished are pairwise distinct, and
\* last_id is at least every id in queue and finished.
MonotonicUniqueIds ==
    /\ \A i, j \in DOMAIN issued : i < j => issued[i] < issued[j]
    /\ \A i, j \in DOMAIN AllJobs : i # j => AllJobs[i].id # AllJobs[j].id
    /\ \A i \in DOMAIN AllJobs : q.last_id >= AllJobs[i].id

\* two ids were handed out and the job with the highest id has been removed
\* while the other one is still held
C2Witness ==
    /\ daemon = "up"
    /\ Len(issued) = 2
    /\ q.last_id = 2
    /\ IdsOf(AllJobs) = {1}

\* C3: after any sequence of requests, crashes and restarts, last_id of the
\* running daemon is at least every id a SubmitJob response has carried.
LastIdCoversIssuedIds ==
    daemon = "up" => \A i \in everIssued : q.last_id >= i

\* C4: whenever the daemon stops, also in the middle of a save, what
\* load_queue reads from the state file is the queue saved before the save
\* began or the queue being saved.
SaveIsAtomic ==
    \/ load_queue(file) = load_queue(presave)
    \/ daemon = "up" /\ load_queue(file) = q

\* C5: the signal handler and the dispatcher never wait for each other's
\* lock: the dispatcher holding the queue lock and waiting for the state
\* lock while the handler holds the state lock and waits for the queue lock.
SigtermNeverDeadlocks ==
    ~ /\ daemon = "up"
      /\ dpc = "save" /\ qlock = "main"
      /\ sigpc = "lockq" /\ slock = "sig"

\* C6: every KillJob dispatch leaves the daemon running and produces a
\* response for the client.
KillJobTolerated ==
    [][(\E id \in 1..(MaxId + 1) : HandleKillJob(id))
        => (daemon' = "up" /\ dpc' = "respond" /\ resp'.kind \in {"Ok", "Error"})]_vars

\* C7: whenever the queue state is Stopped, no job of `queue` is Running.
StoppedHasNoRunningJob ==
    (daemon = "up" /\ q.state = "Stopped") => ~HasRunning(q.queue)

\* C8: a SetQueueState(Stopped) dispatch answers with an error and leaves
\* the queue state as it was; the queue state becomes Stopped only by the
\* runner's finish or by a SetQueueState(Stopping) dispatch.
ClientCannotSetStopped ==
    [][/\ HandleSetQueueState("Stopped")
            => (resp'.kind = "Error" /\ q'.state = q.state)
       /\ (daemon = "up" /\ daemon' = "up" /\ q.state # "Stopped" /\ q'.state = "Stopped")
            => (SchedFinalize \/ HandleSetQueueState("Stopping"))]_vars

\* C9: when the runner waits or has dispatched the next job, and no save is
\* under way, every job of `finished` is in the finished list of the state
\* file and not in its queue list.
FinishIsPersisted ==
    (daemon = "up" /\ spc \in {"waiting", "spawn"} /\ file.kind # "truncated") =>
        \A i \in DOMAIN q.finished :
            /\ file.kind = "json"
            /\ q.finished[i].id \in IdsOf(file.body.finished)
            /\ q.finished[i].id \notin IdsOf(file.body.queue)

\* C10: a mutating dispatch holds the queue lock from its queue operation
\* until the document is written, and when it is about to release the lock
\* the state file is the document of the in-memory queue; the same holds for
\* the SIGTERM handler when it is about to exit.
SaveUnderQueueLock ==
    /\ (daemon = "up" /\ dpc \in {"save", "write", "written"}) => qlock = "main"
    /\ (daemon = "up" /\ dpc = "written") => file = Document(q)
    /\ (daemon = "up" /\ sigpc \in {"write", "exit"}) => qlock = "sig"
    /\ (daemon = "up" /\ sigpc = "exit") => file = Document(q)

\* a SubmitJob dispatch has written the document and still holds the lock
\* while the runner has a job to finalize and needs the lock
C10Witness ==
    /\ daemon = "up"
    /\ dpc = "written" /\ dreq.op = "SubmitJob"
    /\ spc = "finalize"
    /\ Len(q.queue) = 2

\* C11: a state-file save that fails during a mutating dispatch leaves the
\* daemon running and hands the client a 500 response.
SaveFailureAnswered ==
    [][HandleSaveFails
        => (daemon' = "up" /\ dpc' = "respond" /\ resp'.status = 500)]_vars

\* what the recovery block makes of the loaded queue: an empty queue or a
\* Queued head is left alone; under Running a head that is not Queued goes to
\* the end of finished as Failed(interrupted) and the rest keeps its order;
\* under Stopping it stays the head, Queued, without started and pid; under
\* Stopped nothing changes
Recovered(loaded, jq) ==
    IF loaded.queue = <<>> \/ loaded.queue[1].state = Queued
       \/ loaded.state = "Stopped"
    THEN jq = loaded
    ELSE IF loaded.state = "Running"
    THEN /\ jq.queue = Tail(loaded.queue)
         /\ Len(jq.finished) = Len(loaded.finished) + 1
         /\ SubSeq(jq.finished, 1, Len(loaded.finished)) = loaded.finished
         /\ jq.finished[Len(jq.finished)].id = loaded.queue[1].id
         /\ jq.finished[Len(jq.finished)].state = Failed(InterruptedMsg)
         /\ jq.state = loaded.state /\ jq.last_id = loaded.last_id
    ELSE /\ Len(jq.queue) = Len(loaded.queue)
         /\ jq.queue[1].id = loaded.queue[1].id
         /\ jq.queue[1].state = Queued
         /\ ~jq.queue[1].started
         /\ jq.queue[1].pid = NoPid
         /\ Tail(jq.queue) = Tail(loaded.queue)
         /\ jq.finished = loaded.finished
         /\ jq.state = loaded.state /\ jq.last_id = loaded.last_id

\* C12: the queue a daemon start leaves in memory is the recovered form of
\* the queue it loaded from the state file.
StartupRecovery ==
    [][(daemon = "down" /\ daemon' = "up") => Recovered(load_queue(file), q')]_vars

\* a start on a Running queue whose Running head had two Queued jobs behind
\* it: the head is now the last finished job, Failed
C12Witness ==
    /\ daemon = "up" /\ run = 2
    /\ load_queue(file).state = "Running"
    /\ Len(load_queue(file).queue) = 3
    /\ load_queue(file).queue[1].state = Running
    /\ Len(q.queue) = 2
    /\ q.finished # <<>>
    /\ q.finished[Len(q.finished)].state = Failed(InterruptedMsg)

\* index of the job with this id in a list, 0 if it is not there
IndexOf(jobs, id) == FirstFrom(jobs, LAMBDA j : j.id = id, 1)

\* C13 as stated: for submits A then B, while A is still in queue (so it has
\* not moved to finished) B is in queue too, behind A.
FifoAsStated ==
    daemon = "up" =>
        \A a, b \in 1..q.last_id :
            (a < b /\ IndexOf(q.queue, a) # 0) =>
                (IndexOf(q.queue, b) # 0 /\ IndexOf(q.queue, a) < IndexOf(q.queue, b))

\* C13: for submits A then B, whenever both are in queue A is before B, and
\* whenever the runner moves a job from queue to finished no job submitted
\* before it is in queue (it was finished or removed before).
FifoDispatch ==
    /\ [](daemon = "up" =>
            \A i, j \in DOMAIN q.queue : i < j => q.queue[i].id < q.queue[j].id)
    /\ [][(daemon = "up" /\ daemon' = "up") =>
            \A b \in IdsOf(q'.finished) \ IdsOf(q.finished) :
                \A a \in IdsOf(q.queue) : a >= b]_vars

\* both jobs were moved to finished, in the order of their submits
C13Witness ==
    /\ daemon = "up"
    /\ Len(q.finished) = 2
    /\ q.finished[1].id = 1 /\ q.finished[2].id = 2
    /\ q.queue = <<>>

\* C14: while the runner waits for its child and no SIGTERM is being
\* handled, an idle dispatcher can take the queue lock for each of
\* GetQueuedJobs, GetFinishedJobs, GetQueueState, KillJob, RemoveJob and
\* SubmitJob, a KillJob finds the pid it needs, and a dispatch that holds the
\* lock can take each of its remaining steps.
ChildWaitLeavesLock ==
    (daemon = "up" /\ spc = "child" /\ sigpc = "idle") =>
        /\ dpc = "idle" =>
            /\ \A op \in {"GetQueuedJobs", "GetFinishedJobs", "GetQueueState"} :
                    ENABLED HandleGet(op)
            /\ \A id \in 1..(MaxId + 1) :
                    /\ ENABLED HandleKillJob(id)
                    /\ ENABLED HandleRemoveJob(id)
                    /\ sigterm_target(q, id) # 0
                            => q.queue[sigterm_target(q, id)].pid # NoPid
            /\ \A c \in CmdLines : ENABLED HandleSubmitJob(c)
        /\ dpc = "save" => ENABLED HandleSaveCreate
        /\ dpc = "write" => ENABLED HandleSaveWrite
        /\ dpc = "written" => ENABLED HandleSaveDone
        /\ dpc = "respond" => ENABLED Respond

\* a SubmitJob dispatch holds the queue lock and has written the state file
\* while the runner waits for a child that is alive
C14Witness ==
    /\ daemon = "up" /\ spc = "child" /\ sigpc = "idle"
    /\ child.st = "alive"
    /\ dpc = "written" /\ dreq.op = "SubmitJob"
    /\ qlock = "main"

\* C15: with the queue state Running, no removal, fair threads and children
\* that exit, every job in queue is eventually in finished, whatever its
\* appkey.
SubmittedJobsFinish ==
    \A id \in 1..MaxAppkeyId :
        (daemon = "up" /\ id \in IdsOf(q.queue)) ~> (id \in IdsOf(q.finished))

\* the job with this id is in the list, in this JobState
JobIs(jobs, id, st) == \E i \in DOMAIN jobs : jobs[i].id = id /\ jobs[i].state = st

\* C16: a finish under Stopping sets the queue state to Stopped; while the
\* queue state is not Running a Queued job stays Queued in queue; and once
\* the queue state is Running again a job in queue is eventually in finished,
\* unless a client stops the queue once more before.
GracefulStopAndResume ==
    /\ [][(SchedFinalize /\ q.state = "Stopping") => q'.state = "Stopped"]_vars
    /\ [][q.state # "Running" =>
            \A id \in 1..MaxStopId :
                JobIs(q.queue, id, Queued) => JobIs(q'.queue, id, Queued)]_vars
    /\ \A id \in 1..MaxStopId :
            (q.state = "Running" /\ id \in IdsOf(q.queue))
                ~> (id \in IdsOf(q.finished) \/ q.state # "Running")

\* job 1 finished under Stopping: the queue is Stopped, job 2 is Queued at
\* the head and the runner sleeps
C16Witness ==
    /\ daemon = "up"
    /\ q.state = "Stopped"
    /\ IdsOf(q.finished) = {1}
    /\ JobIs(q.queue, 2, Queued)
    /\ spc = "waiting"

\* C17: a job of queue goes from Queued to Running only in a step that starts
\* with the queue state Running; the runner gets a job to spawn only in such
\* a step; and a queue state that is not Running becomes Running only by a
\* SetQueueState(Running) dispatch.
DispatchOnlyWhenRunning ==
    [][(daemon = "up" /\ daemon' = "up") =>
        /\ \A id \in 1..(MaxId + 1) :
                (JobIs(q.queue, id, Queued) /\ JobIs(q'.queue, id, Running))
                    => q.state = "Running"
        /\ (spc # "spawn" /\ spc' = "spawn") => q.state = "Running"
        /\ (q.state # "Running" /\ q'.state = "Running")
                => HandleSetQueueState("Running")]_vars

\* the queue was set to Stopping while the child of job 1 runs and job 2 is
\* Queued behind it
C17Witness ==
    /\ daemon = "up"
    /\ q.state = "Stopping"
    /\ spc = "child" /\ child.st = "alive"
    /\ JobIs(q.queue, 1, Running)
    /\ JobIs(q.queue, 2, Queued)

\* C18: a RemoveJob dispatch for an id that is in neither list computes the
\* response 422 "No such job", one for the id of the Running job computes
\* 422 "Job is currently running and cannot be removed", and both leave
\* queue, finished, last_id and the queue state as they were.
RemoveJobRefused ==
    [][\A id \in 1..(MaxId + 1) :
        HandleRemoveJob(id) =>
            /\ id \notin IdsOf(AllJobs)
                    => (resp' = ErrorResp(422, NoSuchJobMsg) /\ q' = q)
            /\ JobIs(q.queue, id, Running)
                    => (resp' = ErrorResp(422, WrongJobStateMsg) /\ q' = q)]_vars

\* the dispatcher is about to answer a RemoveJob for the Running job with
\* the 422 response, after the save that follows every remove
C18Witness ==
    /\ daemon = "up"
    /\ dpc = "respond" /\ dreq.op = "RemoveJob"
    /\ resp = ErrorResp(422, WrongJobStateMsg)
    /\ JobIs(q.queue, dreq.id, Running)

\* a list without the job of this id, the others in their order
Without(jobs, id) == SelectSeq(jobs, LAMBDA j : j.id # id)

KillJobRefused ==
    [][\A id \in 1..(MaxId + 1) :
        (HandleKillJob(id) /\ ~JobIs(q.queue, id, Running)) =>
            /\ daemon' = "up"
            /\ resp' = ErrorResp(422, NotRunningMsg)
            /\ child' = child
            /\ q' = q]_vars

\* the dispatcher is about to answer 422 to a KillJob for the Queued job
\* that waits behind a Running job whose child is alive
C20Witness ==
    /\ daemon = "up"
    /\ dpc = "respond" /\ dreq.op = "KillJob"
    /\ resp = ErrorResp(422, NotRunningMsg)
    /\ JobIs(q.queue, dreq.id, Queued)
    /\ child.st = "alive"

\* C21: a KillJob dispatch that computes Ok leaves the queue value as it is;
\* a Running job of queue stops being Running in queue only in the runner's
\* finish; and the runner records a child that SIGTERM terminated as the
\* last job of finished, with state Killed(15).
KillJobAdvisory ==
    [][(daemon = "up" /\ daemon' = "up") =>
        /\ \A id \in 1..(MaxId + 1) :
            /\ (HandleKillJob(id) /\ resp' = OkResp) => q' = q
            /\ (JobIs(q.queue, id, Running) /\ ~JobIs(q'.queue, id, Running))
                    => SchedFinalize
        /\ (SchedReap /\ child.st = "killed") => sres' = Killed(SIGTERM)
        /\ (SchedFinalize /\ sres.tag = "Killed" /\ ~qpoison) =>
                /\ q'.finished = Append(q.finished, q'.finished[Len(q'.finished)])
                /\ q'.finished[Len(q'.finished)].id = sjob.id
                /\ q'.finished[Len(q'.finished)].state = Killed(SIGTERM)]_vars

\* job 1 was killed by a KillJob and is in finished as Killed(15)
C21Witness ==
    /\ daemon = "up"
    /\ JobIs(q.finished, 1, Killed(SIGTERM))

\* C22: whenever READY=1 has been sent, the saved queue is loaded and
\* recovered and the runner thread has been started.
ReadyAfterLoadAndRunner ==
    ready => (daemon = "up" /\ q = recover(load_queue(file)))

\* C23: a SubmitJob dispatch for a command line with an empty appkey computes
\* a 422 response and leaves the queue as it is.
EmptyAppkeyRefused ==
    [][HandleSubmitJob(EmptyCmdLine) => (resp'.status = 422 /\ q' = q)]_vars

QueuedJobsAreClean ==
    daemon = "up" =>
        \A i \in DOMAIN q.queue :
            q.queue[i].state = Queued =>
                (~q.queue[i].started /\ ~q.queue[i].finished /\ q.queue[i].pid = NoPid)

\* the daemon started on a Stopping queue whose head was Running with a pid:
\* the head is Queued again
C25Witness ==
    /\ daemon = "up" /\ run = 2
    /\ file.kind = "json" /\ file.body.state = "Stopping"
    /\ load_queue(file).queue # <<>>
    /\ load_queue(file).queue[1].state = Running
    /\ load_queue(file).queue[1].pid # NoPid
    /\ q.queue # <<>>
    /\ q.queue[1].id = load_queue(file).queue[1].id
    /\ q.queue[1].state = Queued

\* C26: every job of finished is Terminated, Killed or Failed and has a
\* finished time, and every job of queue is Queued or Running.
FinishedJobsAreTerminal ==
    daemon = "up" =>
        /\ \A i \in DOMAIN q.finished :
                /\ q.finished[i].state.tag \in {"Terminated", "Killed", "Failed"}
                /\ q.finished[i].finished
        /\ \A i \in DOMAIN q.queue :
                q.queue[i].state \in {Queued, Running}

\* after a start that failed the interrupted head, the next job has run to
\* its end and a third one is Running
C26Witness ==
    /\ daemon = "up" /\ run = 2
    /\ Len(q.finished) = 2
    /\ q.finished[1].state = Failed(InterruptedMsg)
    /\ q.finished[2].state = Terminated(ExitSuccess)
    /\ q.queue # <<>> /\ q.queue[1].state = Running

\* the ids of a list of jobs, in the order of the list
IdSeq(jobs) == [i \in DOMAIN jobs |-> jobs[i].id]

\* list t is list s, or s with one element appended at the tail, or s with
\* one element taken out
KeepsOrder(s, t) ==
    \/ t = s
    \/ Len(t) = Len(s) + 1 /\ SubSeq(t, 1, Len(s)) = s
    \/ \E i \in DOMAIN s : t = RemoveAt(s, i)

ScheduleSkipsRunningHead ==
    [][((SchedAcquire \/ SchedWoken) /\ ~qpoison
            /\ q.queue # <<>> /\ q.queue[1].state = Running)
        => (q' = q /\ spc' # "spawn")]_vars

\* C29: within one daemon run the runner calls schedule() only when no job it
\* dispatched in this run is still in queue (the earlier job was finished
\* first), and each dispatch hands out a job not dispatched before in this run.
DispatchedAtMostOnce ==
    /\ [](daemon = "up" /\ spc \in {"acquire", "waiting", "woken"}
            => \A i \in DOMAIN q.queue : q.queue[i].id \notin dispatched)
    /\ [][(daemon = "up" /\ spc # "spawn" /\ spc' = "spawn")
            => /\ sjob'.id \notin dispatched
               /\ q.queue[1].id = sjob'.id
               /\ \A i \in DOMAIN q.queue : q.queue[i].id \notin dispatched]_vars

C29Witness ==
    /\ daemon = "up"
    /\ dispatched = {1, 2}
    /\ IdSeq(q.finished) = <<1>>
    /\ IdSeq(q.queue) = <<2>>
    /\ spc = "child" /\ sjob.id = 2

\* C30: set_state(Stopping) gives Stopped on an empty queue and Stopping on a
\* non-empty one, any other state is stored as requested, and set_state leaves
\* queue, finished and last_id as they were.
SetStateCoercion ==
    [][\A s \in QueueStates : HandleSetQueueState(s) =>
        /\ q'.state = IF s = "Stopping"
                      THEN (IF q.queue = <<>> THEN "Stopped" ELSE "Stopping")
                      ELSE s
        /\ q'.queue = q.queue
        /\ q'.finished = q.finished
        /\ q'.last_id = q.last_id]_vars

C30Witness ==
    /\ daemon = "up" /\ dpc = "save"
    /\ dreq = SetQueueStateReq("Stopping")
    /\ q.state = "Stopped"
    /\ q.queue = <<>> /\ q.finished # <<>>

\* C31: the QueueState a SetQueueState request is answered with is the state
\* the queue has after set_state, which is what GetQueueState would return.
SetQueueStateAnswersActualState ==
    [][\A s \in QueueStates : HandleSetQueueState(s) => resp'.qs = q'.state]_vars

\* C32: a body that does not parse as a Request, whether it is text that is
\* no Request or bytes that are no text, is answered 400 (or 500) and neither
\* locks nor changes the queue, writes nothing and does not wake the runner;
\* the three Get requests leave the queue and the state file unchanged.
ReadOnlyRequestsHaveNoEffect ==
    [][/\ (HandleBadRequest \/ HandleUnreadableBody) =>
            /\ resp'.status \in {400, 500}
            /\ q' = q /\ file' = file
            /\ qlock' = qlock /\ slock' = slock
            /\ spc' = spc
       /\ \A op \in {"GetQueuedJobs", "GetFinishedJobs", "GetQueueState"} :
            HandleGet(op) => (resp'.status = 200 /\ q' = q /\ file' = file)]_vars

Occurrences(jobs, id) == Cardinality({i \in DOMAIN jobs : jobs[i].id = id})

\* C34: in a daemon run every id submit() returned is in exactly one place:
\* once in queue, once in finished, or among the jobs RemoveJob returned; a
\* successful RemoveJob returns a job that was in a list and was not returned
\* before.
JobConservation ==
    /\ [](daemon = "up" =>
            \A id \in 1..q.last_id :
                Occurrences(q.queue, id) + Occurrences(q.finished, id)
                    + (IF id \in removed THEN 1 ELSE 0) = 1)
    /\ [][\A id \in 1..(MaxId + 1) :
            (HandleRemoveJob(id) /\ resp'.status = 200)
                => /\ id \notin removed
                   /\ resp'.jobs[1].id = id
                   /\ Occurrences(q.queue, id) + Occurrences(q.finished, id) = 1]_vars

C34Witness ==
    /\ daemon = "up"
    /\ q.last_id = 2
    /\ removed = {1}
    /\ IdSeq(q.queue) = <<>>
    /\ IdSeq(q.finished) = <<2>>

\* C35: a queue that is Stopping becomes Stopped, given that every child
\* exits and no client sends a SetQueueState in between.
StoppingDrains ==
    (daemon = "up" /\ q.state = "Stopping") ~> (q.state = "Stopped")

\* C36: the queue a daemon start builds from the state file an earlier run
\* left holds no Running job and no job with a pid.
RecoveryLeavesNoRunningJob ==
    [][Startup =>
        \A i \in DOMAIN q'.queue :
            q'.queue[i].state # Running /\ q'.queue[i].pid = NoPid]_vars

\* C37: a KillJob that runs /bin/kill aims at the pid of the child the runner
\* spawned for this job in this daemon run and has not yet waited for.
KillJobHitsLiveChild ==
    [][\A id \in 1..(MaxId + 1) :
        (HandleKillJob(id) /\ sigterm_target(q, id) # 0
                /\ q.queue[sigterm_target(q, id)].pid # NoPid)
            => /\ child.st # "none"
               /\ child.pid = q.queue[sigterm_target(q, id)].pid
               /\ child.pid = PidOf(run, id)]_vars

\* C38: assign_pid(id, pid) leaves the queue state, last_id, finished and the
\* length of queue alone and changes no field of a job but pid; the pid
\* changes only on a job that is Running and has the id; such a job, when
\* there is one, gets the pid, and when there is none nothing changes.
AssignPidFrame ==
    [][(SchedAssignPid /\ ~qpoison) =>
        /\ q'.state = q.state /\ q'.last_id = q.last_id /\ q'.finished = q.finished
        /\ Len(q'.queue) = Len(q.queue)
        /\ \A k \in DOMAIN q.queue :
                /\ [q'.queue[k] EXCEPT !.pid = q.queue[k].pid] = q.queue[k]
                /\ q'.queue[k].pid # q.queue[k].pid
                        => JobIs(q.queue, sjob.id, Running) /\ q.queue[k].id = sjob.id
        /\ IF JobIs(q.queue, sjob.id, Running)
           THEN \E k \in DOMAIN q.queue :
                    q.queue[k].id = sjob.id /\ q'.queue[k].pid = child.pid
           ELSE q' = q]_vars

\* the call found the Running head and gave it the pid; the Queued job behind
\* it has none
C38Witness ==
    /\ spc = "child"
    /\ Len(q.queue) >= 2
    /\ q.queue[1].state = Running /\ q.queue[1].id = sjob.id
    /\ q.queue[1].pid = child.pid
    /\ q.queue[2].pid = NoPid

====
